---- MODULE Spec2Model ----
(***************************************************************************)
(* glacier_alert.py: one reconciliation cycle (run_update) split at its    *)
(* I/O points, run repeatedly by the scheduler over the three files        *)
(* info.csv (INFO), last.csv (LAST) and saved.csv (SAVED).                 *)
(*                                                                         *)
(* Dates are day offsets from start_date.  A DataFrame is a sequence of    *)
(* row records, a Series a function from index keys to values.  Prices     *)
(* are in cents.  The "sampled" and "updated" columns are carried by no    *)
(* computation of run_update and are left out of the rows.                 *)
(*                                                                         *)
(* Spec             the cycles run one after the other                     *)
(* SpecAnyWatchList the same, the empty alerts file included               *)
(* SpecAnyWindow    the requests of a first cycle, for every date window   *)
(* SpecFair         Spec with every step fair but the upstream's answers   *)
(* SpecSched        main's scheduler and its four cron jobs                *)
(***************************************************************************)
EXTENDS Integers, Sequences, FiniteSets, TLC

MAX_DAYS_REQUEST == 31

\* ---------------------------------------------------------------- bounds
\* number of times the scheduler runs run_update
MaxCycles == 3
\* number of those runs that may end in an exception that the code could
\* also have done without (pd.concat given nothing but None always raises)
MaxRaises == 1
\* len(pd.date_range(start_date, end_date))
NumDays == 32
\* "price" values the upstream may report, in cents
Prices == {10000}
\* the longest window, in days, that --start_date and --end_date may span
MaxWindow == 65
\* minutes the scheduler is followed for after sched.start()
MaxMinutes == 75
\* "rateCode" values the upstream may report
RateCodes == {"INTERNET", "EMPLOYEE"}

\* the (date, hotel_code, room_code) keys the upstream has rooms for
K1 == <<0, "H1", "R1">>
K2 == <<31, "H2", "R1">>
\* a key the upstream never reports
K3 == <<1, "H1", "R9">>
ModelKeys == <<K1, K2>>
\* "available" counts the upstream may report for a key: K1 goes through
\* every change of value and of state, K2 is listed with 1 or not at all
Avail(k) == IF k = K1 THEN 0..2 ELSE {1}
\* the alerts files the operator may supply, expanded by main: a watched key the
\* upstream reports, listed twice, and one it never reports; K2 is not watched
WatchLists == { <<K1, K3, K1>> }

\* the upstream catalog: get_hotel_titles and get_room_info per hotel
HotelTitles == << [hotel_code |-> "H1", hotel_title |-> "Hotel 1"],
                  [hotel_code |-> "H2", hotel_title |-> "Hotel 2"] >>
RoomInfo(code) ==
    IF code = "H1"
    THEN << [room_code |-> "R1", room_title |-> "Room", max_occupancy |-> 2],
            [room_code |-> "R2", room_title |-> "Room", max_occupancy |-> 2] >>
    ELSE << [room_code |-> "R1", room_title |-> "Room", max_occupancy |-> 2] >>

\* ---------------------------------------------------------------- helpers
Min(a, b) == IF a < b THEN a ELSE b
Range(s) == { s[i] : i \in DOMAIN s }
min(s) == CHOOSE d \in Range(s) : \A e \in Range(s) : d <= e
EmptySeries == [k \in {} |-> 0]

RECURSIVE Flatten(_)
Flatten(ss) == IF ss = << >> THEN << >> ELSE Head(ss) \o Flatten(Tail(ss))

RECURSIVE SumSeq(_)
SumSeq(s) == IF s = << >> THEN 0 ELSE Head(s) + SumSeq(Tail(s))

\* a float that is not a number (a missing value of a float column)
NaN == -1

\* Series.mean().round(2) of a group of prices: the mean to the nearest cent,
\* a tie going to the even cent
MeanRound2(ps) ==
    LET n == Len(ps)
        s == SumSeq(ps)
        q == s \div n
        r == s % n
    IN  IF 2 * r < n THEN q
        ELSE IF 2 * r > n THEN q + 1
        ELSE IF q % 2 = 0 THEN q ELSE q + 1

\* ---------------------------------------------------------------- files
\* a path that does not exist
NoInfo == [exists |-> FALSE, rows |-> << >>]
NoLast == [exists |-> FALSE, rows |-> << >>]
NoSaved == [exists |-> FALSE, lines |-> << >>]
\* the header line DataFrame.to_csv(header=True) writes
Header == [kind |-> "header", key |-> << >>, available |-> 0, price |-> 0]
CsvLine(r) == [kind |-> "row", key |-> r.key, available |-> r.available, price |-> r.price]

VARIABLES
    INFO, LAST, SAVED,      \* the three files
    alert_on,               \* main's watch list, a sequence of keys
    pc,                     \* where run_update is
    info, last,             \* run_update's locals
    fetched,                \* the get_room_availability calls that have returned
    some_frame,             \* one of them returned a DataFrame
    new_df,                 \* the rows of the DataFrames returned so far, concatenated
    changes,
    notified,               \* send_room_updates was called in this cycle
    result,                 \* how the latest cycle ended: none, completed, raised
    failedAt,               \* the pc at which the latest cycle raised
    wrote,                  \* the files this cycle has written, in order
    cycles,                 \* cycles started
    pre,                    \* the three files as they were when the cycle started
    prev,                   \* how the cycle before ended, and what it fetched
    obs,                    \* per key, its latest observation by an earlier completed cycle
    raises,                 \* cycles that have raised, counted up to MaxRaises
    end_date,               \* main's --end_date, as a day offset from --start_date
    calls,                  \* the arguments of the get_room_availability calls the list
                            \* comprehension goes through, in order
    clock,                  \* the scheduler's minute of the hour
    elapsed,                \* minutes since sched.start()
    running                 \* the jobs of the scheduler that have an instance running

vars == << INFO, LAST, SAVED, alert_on, pc, info, last, fetched, some_frame, new_df, changes,
           notified, result, failedAt, wrote, cycles, pre, prev, obs, raises,
           end_date, calls, clock, elapsed, running >>

files == << INFO, LAST, SAVED >>
locals == << info, last, fetched, calls, some_frame, new_df, changes >>
\* what main passes to run_update
args == << alert_on, end_date >>
\* the scheduler of main
sched == << clock, elapsed, running >>

\* ---------------------------------------------------------------- get_hotel_rooms
\* rooms of every hotel, each with its hotel's code, merged with the hotel titles
get_hotel_rooms ==
    Flatten([ h \in DOMAIN HotelTitles |->
        [ i \in DOMAIN RoomInfo(HotelTitles[h].hotel_code) |->
            LET r == RoomInfo(HotelTitles[h].hotel_code)[i]
            IN  [hotel_code |-> HotelTitles[h].hotel_code, room_code |-> r.room_code,
                 room_title |-> r.room_title, max_occupancy |-> r.max_occupancy,
                 hotel_title |-> HotelTitles[h].hotel_title] ] ])

\* DataFrame.drop_duplicates(): a row is dropped when an earlier row has the
\* same values in every column (the index, hotel_code and room_code, is no column)
Columns(r) == << r.room_title, r.max_occupancy, r.hotel_title, r.latest_price >>
RECURSIVE DropFrom(_, _)
DropFrom(rows, seen) ==
    IF rows = << >> THEN << >>
    ELSE IF Columns(Head(rows)) \in seen THEN DropFrom(Tail(rows), seen)
    ELSE << Head(rows) >> \o DropFrom(Tail(rows), seen \cup {Columns(Head(rows))})
drop_duplicates(rows) == DropFrom(rows, {})

\* info.index.unique(level="hotel_code"): the hotel codes in order of appearance
RECURSIVE UniqueFrom(_, _)
UniqueFrom(s, seen) ==
    IF s = << >> THEN << >>
    ELSE IF Head(s) \in seen THEN UniqueFrom(Tail(s), seen)
    ELSE << Head(s) >> \o UniqueFrom(Tail(s), seen \cup {Head(s)})
hotel_codes(inf) == UniqueFrom([i \in DOMAIN inf |-> inf[i].hotel_code], {})

\* ---------------------------------------------------------------- the requests
\* pd.date_range(start_date, end_date), start_date being day 0
dates == [i \in 1..(end_date + 1) |-> i - 1]
\* range(0, len(dates), MAX_DAYS_REQUEST)
ChunkStarts == { i \in 0..(Len(dates) - 1) : i % MAX_DAYS_REQUEST = 0 }
NumChunks == Cardinality(ChunkStarts)
\* dates[i:i+MAX_DAYS_REQUEST] for the c-th start
date_chunks ==
    [c \in 1..NumChunks |->
        SubSeq(dates, (c - 1) * MAX_DAYS_REQUEST + 1,
               Min((c - 1) * MAX_DAYS_REQUEST + MAX_DAYS_REQUEST, Len(dates)))]

\* every request asks for MAX_DAYS_REQUEST days, the last chunk's too
RequestsFullLimit(inf) ==
    Flatten([ h \in DOMAIN hotel_codes(inf) |->
        [ c \in DOMAIN date_chunks |->
            [hotel_code |-> hotel_codes(inf)[h],
             start_date |-> min(date_chunks[c]),
             num_days |-> MAX_DAYS_REQUEST] ] ])

\* the (code, min(chunk), len(chunk)) arguments, hotel by hotel, chunk by chunk
Requests(inf) ==
    Flatten([ h \in DOMAIN hotel_codes(inf) |->
        [ c \in DOMAIN date_chunks |->
            [hotel_code |-> hotel_codes(inf)[h],
             start_date |-> min(date_chunks[c]),
             num_days |-> Len(date_chunks[c])] ] ])

\* ---------------------------------------------------------------- the upstream
\* a response that resp.json()["availability"] cannot read
Malformed == << [date |-> -1, roomCode |-> "", available |-> 0, price |-> 0, rateCode |-> "malformed"] >>

RoomEntries(k) ==
    { [date |-> k[1], roomCode |-> k[3], available |-> a, price |-> p, rateCode |-> rc] :
        a \in Avail(k), p \in Prices, rc \in RateCodes }

RECURSIVE ResponsesOver(_)
ResponsesOver(ks) ==
    IF ks = << >> THEN { << >> }
    ELSE LET rest == ResponsesOver(Tail(ks))
         IN  rest \cup { << e >> \o t : e \in RoomEntries(Head(ks)), t \in rest }

\* the rooms the upstream may list for a request: at most one entry for each
\* key of the hotel within the num_days days from start_date, in date order
Responses(rq) ==
    ResponsesOver(SelectSeq(ModelKeys,
        LAMBDA k : /\ k[2] = rq.hotel_code
                   /\ k[1] \in rq.start_date..(rq.start_date + rq.num_days - 1)))

\* ---------------------------------------------------------------- get_room_availability
\* None: the except branch returns nothing
None == [frame |-> FALSE, rows |-> << >>]
get_room_availability(hotel_code, resp) ==
    IF resp = Malformed THEN None
    ELSE [frame |-> TRUE,
          rows |-> LET kept == SelectSeq(resp, LAMBDA e : e.rateCode = "INTERNET")
                   IN  [i \in DOMAIN kept |->
                         [key |-> << kept[i].date, hotel_code, kept[i].roomCode >>,
                          available |-> kept[i].available,
                          price |-> kept[i].price]]]

\* pd.concat drops the None results and appends the rows of the others in order
concat(df, res) == df \o res.rows

\* ---------------------------------------------------------------- get changes
\* new_df["available"], indexed by (date, hotel_code, room_code)
available_of(df) ==
    [k \in { df[i].key : i \in DOMAIN df } |->
        df[CHOOSE i \in DOMAIN df : df[i].key = k].available]

\* Series.reindex(index, fill_value)
reindex(series, index, fill_value) ==
    [k \in index |-> IF k \in DOMAIN series THEN series[k] ELSE fill_value]

current == available_of(new_df)

\* (current > 0) & (last != current): any other prior value counts as closed
opened_on_change(cur, lst) == [k \in DOMAIN cur |-> cur[k] > 0 /\ lst[k] # cur[k]]
\* (current > 0) & (last == 0), on current's index
opened(cur, lst) == [k \in DOMAIN cur |-> cur[k] > 0 /\ lst[k] = 0]
\* the line above it copied and not edited
closed_copied(cur, lst) == [k \in DOMAIN cur |-> cur[k] > 0 /\ lst[k] = 0]
\* (current == 0) & (last > 0), on current's index
closed(cur, lst) == [k \in DOMAIN cur |-> cur[k] = 0 /\ lst[k] > 0]

\* no reindex on the watch list: the watched rows of changes that exist
get_changes_fetched_only(cur, lst, watch) ==
    LET hit == SelectSeq(watch, LAMBDA k : k \in DOMAIN cur)
    IN  [i \in DOMAIN hit |->
            [key |-> hit[i], opened |-> opened(cur, lst)[hit[i]], closed |-> closed(cur, lst)[hit[i]]]]

\* changes.reindex(pd.MultiIndex.from_frame(alert_on), fill_value=False):
\* one row for each row of alert_on, in its order
get_changes(cur, lst, watch) ==
    [i \in DOMAIN watch |->
        [key |-> watch[i],
         opened |-> reindex(opened(cur, lst), {watch[i]}, FALSE)[watch[i]],
         closed |-> reindex(closed(cur, lst), {watch[i]}, FALSE)[watch[i]]]]

\* the sum taken before the reindex on the watch list: over every fetched key
any_change_fetched(chg) ==
    \E k \in DOMAIN current : opened(current, last)[k] \/ closed(current, last)[k]
\* changes.sum().sum() > 0
any_change(chg) == \E i \in DOMAIN chg : chg[i].opened \/ chg[i].closed

\* ---------------------------------------------------------------- save data
\* every row, changed or not
changed_rows_all(df, lst) == df
\* new_df.loc[current != last], last being reindexed on current's index
changed_rows(df, lst) ==
    SelectSeq(df, LAMBDA r : available_of(df)[r.key] # lst[r.key])

\* header=True in both branches
saved_lines_header(file, df, lst) ==
    IF file.exists
    THEN << Header >> \o [i \in DOMAIN changed_rows(df, lst) |-> CsvLine(changed_rows(df, lst)[i])]
    ELSE << Header >> \o [i \in DOMAIN df |-> CsvLine(df[i])]

\* the lines the write of SAVED adds: to_csv(SAVED, header=False, mode="a") of
\* the changed rows, or to_csv(SAVED, header=True) of them all
saved_lines(file, df, lst) ==
    IF file.exists
    THEN [i \in DOMAIN changed_rows(df, lst) |-> CsvLine(changed_rows(df, lst)[i])]
    ELSE << Header >> \o [i \in DOMAIN df |-> CsvLine(df[i])]

\* last.to_csv(LAST): the reindexed prior values are written, not the current ones
last_rows_prior(df, lst) == [i \in DOMAIN df |-> [key |-> df[i].key, available |-> lst[df[i].key]]]
\* the rows current.to_csv(LAST) writes, in new_df's order
last_rows(df, lst) == [i \in DOMAIN df |-> [key |-> df[i].key, available |-> available_of(df)[df[i].key]]]

\* pd.read_csv(LAST).set_index(...)["available"] of a file of these rows
read_last(rows) ==
    [k \in { rows[i].key : i \in DOMAIN rows } |->
        rows[CHOOSE i \in DOMAIN rows : rows[i].key = k].available]

\* what a to_csv call that raises may have written of its lines: any prefix
Prefixes(s) == { SubSeq(s, 1, n) : n \in 0..Len(s) }

\* new_df.groupby(["hotel_code", "room_code"])["price"].mean().round(2)
\*       .reindex(info.index), for one row of info
latest_price(df, row) ==
    LET ps == SelectSeq(df, LAMBDA r : r.key[2] = row.hotel_code /\ r.key[3] = row.room_code)
    IN  IF ps = << >> THEN NaN ELSE MeanRound2([i \in DOMAIN ps |-> ps[i].price])

with_latest_price(inf, df) ==
    [i \in DOMAIN inf |->
        [hotel_code |-> inf[i].hotel_code, room_code |-> inf[i].room_code,
         room_title |-> inf[i].room_title, max_occupancy |-> inf[i].max_occupancy,
         hotel_title |-> inf[i].hotel_title, latest_price |-> latest_price(df, inf[i])]]

\* ---------------------------------------------------------------- the program
\* the process has started: no file yet, run_update not entered, no job run
Fresh ==
    /\ INFO = NoInfo
    /\ LAST = NoLast
    /\ SAVED = NoSaved
    /\ pc = "idle"
    /\ info = << >>
    /\ last = EmptySeries
    /\ fetched = 0
    /\ some_frame = FALSE
    /\ new_df = << >>
    /\ changes = << >>
    /\ notified = FALSE
    /\ result = "none"
    /\ failedAt = "none"
    /\ wrote = << >>
    /\ cycles = 0
    /\ pre = [INFO |-> NoInfo, LAST |-> NoLast, SAVED |-> NoSaved]
    /\ prev = [result |-> "none", current |-> EmptySeries]
    /\ obs = EmptySeries
    /\ raises = 0
    /\ calls = << >>
    /\ elapsed = 0
    /\ running = {}

Init ==
    /\ Fresh
    /\ alert_on \in WatchLists
    /\ end_date = NumDays - 1
    /\ clock = 0

\* the latest observation of every key, the cycle that just completed included
observed(cur, before) ==
    [k \in DOMAIN cur \cup DOMAIN before |-> IF k \in DOMAIN cur THEN cur[k] ELSE before[k]]

\* the scheduler runs the job: run_update is entered
Start ==
    /\ pc = "idle"
    /\ cycles < MaxCycles
    /\ cycles' = cycles + 1
    /\ pc' = "load_info"
    /\ info' = << >>
    /\ last' = EmptySeries
    /\ fetched' = 0
    /\ calls' = << >>
    /\ some_frame' = FALSE
    /\ new_df' = << >>
    /\ changes' = << >>
    /\ notified' = FALSE
    /\ result' = "none"
    /\ failedAt' = "none"
    /\ wrote' = << >>
    /\ pre' = [INFO |-> INFO, LAST |-> LAST, SAVED |-> SAVED]
    /\ prev' = [result |-> result, current |-> current]
    /\ obs' = IF result = "completed" THEN observed(current, obs) ELSE obs
    /\ UNCHANGED << files, args, sched, raises >>

\* an exception leaves run_update; the scheduler logs it and goes on
Raised ==
    /\ raises < MaxRaises
    /\ pc' = "idle"
    /\ result' = "raised"
    /\ failedAt' = pc
    /\ raises' = raises + 1
    /\ UNCHANGED << args, sched, locals, wrote, cycles, pre, prev, obs >>

\* the catalog is written to INFO as soon as it is fetched
LoadInfoPersisting ==
    /\ pc = "load_info"
    /\ info' = IF INFO.exists THEN drop_duplicates(INFO.rows) ELSE get_hotel_rooms
    /\ INFO' = IF INFO.exists THEN INFO ELSE [exists |-> TRUE, rows |-> get_hotel_rooms]
    /\ pc' = "load_last"
    /\ UNCHANGED << LAST, SAVED, args, sched, last, fetched, calls, some_frame, new_df, changes, notified,
                    result, failedAt, wrote, cycles, pre, prev, obs, raises >>

\* get all hotels and rooms
LoadInfo ==
    /\ pc = "load_info"
    /\ info' = IF INFO.exists THEN drop_duplicates(INFO.rows) ELSE get_hotel_rooms
    /\ pc' = "load_last"
    /\ UNCHANGED << files, args, sched, last, fetched, calls, some_frame, new_df, changes, notified, result,
                    failedAt, wrote, cycles, pre, prev, obs, raises >>

\* pd.read_csv(INFO) or a request of get_hotel_rooms raises
LoadInfoRaises ==
    /\ pc = "load_info"
    /\ Raised
    /\ UNCHANGED << files, notified >>

\* read previously-gathered data; dates, date_chunks and the iterables of the
\* list comprehension
LoadLast ==
    /\ pc = "load_last"
    /\ last' = IF LAST.exists THEN read_last(LAST.rows) ELSE EmptySeries
    /\ calls' = Requests(info)
    /\ pc' = "fetch"
    /\ UNCHANGED << files, args, sched, info, fetched, some_frame, new_df, changes, notified, result,
                    failedAt, wrote, cycles, pre, prev, obs, raises >>

\* pd.read_csv(LAST) raises
LoadLastRaises ==
    /\ pc = "load_last"
    /\ LAST.exists
    /\ Raised
    /\ UNCHANGED << files, notified >>

\* the next get_room_availability call of the list comprehension
Fetch ==
    /\ pc = "fetch"
    /\ fetched < Len(calls)
    /\ LET rq == calls[fetched + 1]
       IN  \E resp \in Responses(rq) \cup {Malformed} :
               LET res == get_room_availability(rq.hotel_code, resp)
               IN  /\ new_df' = concat(new_df, res)
                   /\ some_frame' = (some_frame \/ res.frame)
    /\ fetched' = fetched + 1
    /\ UNCHANGED << files, args, sched, calls, pc, info, last, changes, notified, result,
                    failedAt, wrote, cycles, pre, prev, obs, raises >>

\* requests.get raises in the next get_room_availability call
FetchRaises ==
    /\ pc = "fetch"
    /\ fetched < Len(calls)
    /\ Raised
    /\ UNCHANGED << files, notified >>

\* pd.concat raises "All objects passed were None": every call returned None.
\* Nothing else can happen there, so this exception is not one of the MaxRaises
\* the model may choose; the count stops at MaxRaises.
ConcatRaises ==
    /\ pc = "fetch"
    /\ fetched = Len(calls)
    /\ ~some_frame
    /\ pc' = "idle"
    /\ result' = "raised"
    /\ failedAt' = pc
    /\ raises' = Min(raises + 1, MaxRaises)
    /\ UNCHANGED << files, args, sched, locals, notified, wrote, cycles, pre, prev, obs >>

\* pd.concat(...).set_index(...), then "get changes"
GetChanges ==
    /\ pc = "fetch"
    /\ fetched = Len(calls)
    /\ some_frame
    /\ last' = reindex(last, DOMAIN current, 0)
    /\ changes' = get_changes(current, last', alert_on)
    /\ pc' = "save_saved"
    /\ UNCHANGED << files, args, sched, info, fetched, calls, some_frame, new_df, notified, result,
                    failedAt, wrote, cycles, pre, prev, obs, raises >>

\* the write of SAVED
SaveSaved ==
    /\ pc = "save_saved"
    /\ SAVED' = [exists |-> TRUE, lines |-> SAVED.lines \o saved_lines(SAVED, new_df, last)]
    /\ wrote' = Append(wrote, "SAVED")
    /\ pc' = "save_last"
    /\ UNCHANGED << INFO, LAST, args, sched, locals, notified, result,
                    failedAt, cycles, pre, prev, obs, raises >>

\* current.to_csv(LAST)
SaveLast ==
    /\ pc = "save_last"
    /\ LAST' = [exists |-> TRUE, rows |-> last_rows(new_df, last)]
    /\ wrote' = Append(wrote, "LAST")
    /\ pc' = "save_info"
    /\ UNCHANGED << INFO, SAVED, args, sched, locals, notified, result,
                    failedAt, cycles, pre, prev, obs, raises >>

\* info["latest_price"] = ...; info.to_csv(INFO)
SaveInfo ==
    /\ pc = "save_info"
    /\ info' = with_latest_price(info, new_df)
    /\ INFO' = [exists |-> TRUE, rows |-> info']
    /\ wrote' = Append(wrote, "INFO")
    /\ pc' = "send"
    /\ UNCHANGED << LAST, SAVED, args, sched, last, fetched, calls, some_frame, new_df, changes, notified, result,
                    failedAt, cycles, pre, prev, obs, raises >>

\* the write of SAVED raises: the file is as it was, or holds some of the lines
SaveSavedRaises ==
    /\ pc = "save_saved"
    /\ \/ UNCHANGED SAVED
       \/ \E p \in Prefixes(saved_lines(SAVED, new_df, last)) :
              SAVED' = [exists |-> TRUE, lines |-> SAVED.lines \o p]
    /\ Raised
    /\ UNCHANGED << INFO, LAST, notified >>

\* current.to_csv(LAST) raises: the file is as it was, or was opened for
\* writing and holds some of the rows
SaveLastRaises ==
    /\ pc = "save_last"
    /\ \/ UNCHANGED LAST
       \/ \E p \in Prefixes(last_rows(new_df, last)) :
              LAST' = [exists |-> TRUE, rows |-> p]
    /\ Raised
    /\ UNCHANGED << INFO, SAVED, notified >>

\* info.to_csv(INFO) raises, likewise
SaveInfoRaises ==
    /\ pc = "save_info"
    /\ \/ UNCHANGED INFO
       \/ \E p \in Prefixes(with_latest_price(info, new_df)) :
              INFO' = [exists |-> TRUE, rows |-> p]
    /\ Raised
    /\ UNCHANGED << LAST, SAVED, notified >>

Completed ==
    /\ pc' = "idle"
    /\ result' = "completed"
    /\ UNCHANGED << files, args, sched, locals, failedAt, wrote, cycles, pre, prev, obs, raises >>

\* send_room_updates returns
SendUpdates ==
    /\ pc = "send"
    /\ any_change(changes)
    /\ notified' = TRUE
    /\ Completed

\* the exception handled by putting the files back as the cycle found them
SendRaisesRollingBack ==
    /\ pc = "send"
    /\ any_change(changes)
    /\ notified' = TRUE
    /\ Raised
    /\ INFO' = pre.INFO
    /\ LAST' = pre.LAST
    /\ SAVED' = pre.SAVED

\* send_room_updates raises
SendRaises ==
    /\ pc = "send"
    /\ any_change(changes)
    /\ notified' = TRUE
    /\ Raised
    /\ UNCHANGED files

\* "No room updates to send"
NoUpdates ==
    /\ pc = "send"
    /\ ~any_change(changes)
    /\ UNCHANGED notified
    /\ Completed

Next ==
    \/ Start
    \/ LoadInfo
    \/ LoadInfoRaises
    \/ LoadLast
    \/ LoadLastRaises
    \/ Fetch
    \/ FetchRaises
    \/ ConcatRaises
    \/ GetChanges
    \/ SaveSaved
    \/ SaveLast
    \/ SaveInfo
    \/ SaveSavedRaises
    \/ SaveLastRaises
    \/ SaveInfoRaises
    \/ SendUpdates
    \/ SendRaises
    \/ NoUpdates

Spec == Init /\ [][Next]_vars

\* the same program started with either alerts file, the empty one included
InitAnyWatchList ==
    /\ Fresh
    /\ alert_on \in WatchLists \cup { << >> }
    /\ end_date = NumDays - 1
    /\ clock = 0
SpecAnyWatchList == InitAnyWatchList /\ [][Next]_vars

\* The steps that do not wait for the availability endpoint.  The thread that
\* runs run_update goes on as long as it has a step to take, and the scheduler
\* goes on running the job; requests.get(...) of get_room_availability is
\* given no timeout, so Fetch and FetchRaises happen only if the upstream
\* answers or the connection fails.
Local ==
    \/ Start
    \/ LoadInfo
    \/ LoadInfoRaises
    \/ LoadLast
    \/ LoadLastRaises
    \/ ConcatRaises
    \/ GetChanges
    \/ SaveSaved
    \/ SaveLast
    \/ SaveInfo
    \/ SaveSavedRaises
    \/ SaveLastRaises
    \/ SaveInfoRaises
    \/ SendUpdates
    \/ SendRaises
    \/ NoUpdates

SpecFair == Init /\ [][Next]_vars /\ WF_vars(Local)

\* the fetch stage of a first cycle, for every window of 1 to MaxWindow days
InitAnyWindow ==
    /\ Fresh
    /\ alert_on \in WatchLists
    /\ end_date \in 0..(MaxWindow - 1)
    /\ clock = 0

NextFetching ==
    \/ Start
    \/ LoadInfo
    \/ LoadLast
    \/ Fetch

SpecAnyWindow == InitAnyWindow /\ [][NextFetching]_vars

\* ---------------------------------------------------------------- the scheduler
\* main's BlockingScheduler seen alone, a run of the job taken as a whole from
\* its submission to its return.  sched.add_job is called four times, which
\* makes four jobs, one for each cron minute.  A job that is due is submitted
\* to the scheduler's thread pool unless an instance of that same job is still
\* running (add_job is given no max_instances, so one a job); the pool's ten
\* threads are more than the jobs.  The clock counts minutes from second 20.
Minutes == {11, 26, 41, 56}

\* all of run_update's state; the scheduler's steps leave it alone
cycle_state == << files, args, locals, pc, notified, result, failedAt, wrote, pre, prev, obs, raises >>

\* main as far as sched.start(): run_update has not been called
InitSched ==
    /\ Fresh
    /\ alert_on \in WatchLists
    /\ end_date = NumDays - 1
    /\ clock \in 0..59

\* a minute passes for which no job is set
Tick ==
    /\ elapsed < MaxMinutes
    /\ (clock + 1) % 60 \notin Minutes
    /\ clock' = (clock + 1) % 60
    /\ elapsed' = elapsed + 1
    /\ UNCHANGED << running, cycles, cycle_state >>

\* a job is due and has no instance running: func is submitted to the pool
RunJob ==
    /\ elapsed < MaxMinutes
    /\ (clock + 1) % 60 \in Minutes \ running
    /\ clock' = (clock + 1) % 60
    /\ elapsed' = elapsed + 1
    /\ running' = running \cup {clock'}
    /\ cycles' = cycles + 1
    /\ UNCHANGED cycle_state

\* a job is due while its instance of an hour ago is still running: the run
\* is skipped ("maximum number of running instances reached")
SkipJob ==
    /\ elapsed < MaxMinutes
    /\ (clock + 1) % 60 \in Minutes \cap running
    /\ clock' = (clock + 1) % 60
    /\ elapsed' = elapsed + 1
    /\ UNCHANGED << running, cycles, cycle_state >>

\* func returns or raises in its thread
JobEnds ==
    /\ \E j \in running : running' = running \ {j}
    /\ UNCHANGED << clock, elapsed, cycles, cycle_state >>

NextSched ==
    \/ Tick
    \/ RunJob
    \/ SkipJob
    \/ JobEnds

SpecSched == InitSched /\ [][NextSched]_vars

\* ---------------------------------------------------------------- what the claims speak of
\* a key's value in a mapping, a missing key counting as 0
Val(series, k) == IF k \in DOMAIN series THEN series[k] ELSE 0
\* the snapshot the cycle loaded
prior == IF pre.LAST.exists THEN read_last(pre.LAST.rows) ELSE EmptySeries
\* the latest cycle has computed its changes
Diffed ==
    \/ pc \in {"save_saved", "save_last", "save_info", "send"}
    \/ pc = "idle" /\ result = "completed"
    \/ pc = "idle" /\ result = "raised" /\ failedAt \in {"save_saved", "save_last", "save_info", "send"}
\* the latest cycle completed, and no cycle has raised
CompletedClean == pc = "idle" /\ result = "completed" /\ raises = 0
Lines(df) == [i \in DOMAIN df |-> CsvLine(df[i])]
\* what SAVED holds after a cycle that wrote it
ExpectedSaved ==
    IF pre.SAVED.exists
    THEN pre.SAVED.lines \o Lines(SelectSeq(new_df, LAMBDA r : r.available # Val(prior, r.key)))
    ELSE << Header >> \o Lines(new_df)
Headers(lines) == Len(SelectSeq(lines, LAMBDA l : l.kind = "header"))

\* C1: no missed transitions.  In a cycle that completed (no cycle having
\* raised), every watched key observed with available > 0 whose latest earlier
\* observation was 0 (or that was never observed) has a record with opened, and
\* every watched key observed with available = 0 whose latest earlier
\* observation was > 0 has a record with closed; the Notifier was invoked.
NoMissedTransitions ==
    CompletedClean =>
        \A k \in Range(alert_on) \cap DOMAIN current :
            /\ (current[k] > 0 /\ Val(obs, k) = 0) =>
                   /\ \E i \in DOMAIN changes : changes[i].key = k /\ changes[i].opened
                   /\ notified
            /\ (current[k] = 0 /\ Val(obs, k) > 0) =>
                   /\ \E i \in DOMAIN changes : changes[i].key = k /\ changes[i].closed
                   /\ notified

\* C2: no duplicate alerts.  In a cycle that completed (no cycle having raised),
\* a record has opened or closed only if its key was observed in the cycle with
\* a state (available > 0 or not) other than that of its latest earlier
\* observation, a key never observed counting as 0.
NoDuplicateAlerts ==
    CompletedClean =>
        \A i \in DOMAIN changes :
            (changes[i].opened \/ changes[i].closed) =>
                /\ changes[i].key \in DOMAIN current
                /\ (current[changes[i].key] > 0) # (Val(obs, changes[i].key) > 0)

\* C3: after a completed cycle LAST holds, for every key observed in this or an
\* earlier completed cycle, one row with the value of its latest observation.
SnapshotHoldsLatestObservations ==
    (pc = "idle" /\ result = "completed") =>
        /\ LAST.exists
        /\ \A i, j \in DOMAIN LAST.rows : LAST.rows[i].key = LAST.rows[j].key => i = j
        /\ read_last(LAST.rows) = observed(current, obs)

\* C4 as stated: every record of the diff has opened = (cur > 0 and prior = 0)
\* and closed = (cur = 0 and prior > 0), cur being the key's fetched value and
\* prior its value in the loaded snapshot, a key missing from either counting
\* as 0 there; so a watched key with prior > 0 that was not fetched is closed.
DiffDefaultsBothToZero ==
    Diffed =>
        \A i \in DOMAIN changes :
            /\ changes[i].opened = (Val(current, changes[i].key) > 0 /\ Val(prior, changes[i].key) = 0)
            /\ changes[i].closed = (Val(current, changes[i].key) = 0 /\ Val(prior, changes[i].key) > 0)

\* C4 amended: for a watched key that was fetched, opened = (cur > 0 and
\* prior = 0) and closed = (cur = 0 and prior > 0), a key missing from the
\* loaded snapshot counting as 0; for a watched key that was not fetched,
\* opened and closed are both false whatever its prior value.
DiffDefaultsPriorToZero ==
    Diffed =>
        \A i \in DOMAIN changes :
            IF changes[i].key \in DOMAIN current
            THEN /\ changes[i].opened = (current[changes[i].key] > 0 /\ Val(prior, changes[i].key) = 0)
                 /\ changes[i].closed = (current[changes[i].key] = 0 /\ Val(prior, changes[i].key) > 0)
            ELSE ~changes[i].opened /\ ~changes[i].closed

\* a watched key with a prior value > 0 was not fetched, and the diff is done
UnfetchedWatchedKeyWithPrior ==
    /\ Diffed
    /\ \E i \in DOMAIN changes :
           /\ changes[i].key \notin DOMAIN current
           /\ Val(prior, changes[i].key) > 0
           /\ ~changes[i].closed

\* C5: the diff has one record for each row of the watch list, in its order
\* and with its key, so its key set is the watch list's: a watched key in
\* neither mapping has a record, with opened and closed false, and a fetched
\* key that is not watched has none.
OneRecordPerWatchRow ==
    Diffed =>
        /\ Len(changes) = Len(alert_on)
        /\ \A i \in DOMAIN alert_on : changes[i].key = alert_on[i]
        /\ { changes[i].key : i \in DOMAIN changes } = Range(alert_on)
        /\ \A i \in DOMAIN changes :
               (changes[i].key \notin DOMAIN current \cup DOMAIN prior) =>
                   (~changes[i].opened /\ ~changes[i].closed)

\* the diff is done, a key was fetched that is not watched, and a watched key
\* is in neither the fetch nor the loaded snapshot
UnwatchedFetchedAndWatchedUnseen ==
    /\ Diffed
    /\ DOMAIN current \ Range(alert_on) # {}
    /\ Range(alert_on) \ (DOMAIN current \cup DOMAIN prior) # {}
    /\ DOMAIN prior # {}

\* C6: opened and closed are never both true, in a record of the diff or, before
\* the reindex on the watch list, for any fetched key.
OpenedClosedExclusive ==
    /\ \A i \in DOMAIN changes : ~(changes[i].opened /\ changes[i].closed)
    /\ Diffed =>
           \A k \in DOMAIN current :
               ~(opened(current, reindex(prior, DOMAIN current, 0))[k]
                   /\ closed(current, reindex(prior, DOMAIN current, 0))[k])

\* one cycle's diff has closed for a key (and so an earlier one had it open)
SomeKeyClosed ==
    /\ Diffed
    /\ \E i \in DOMAIN changes : changes[i].closed /\ ~changes[i].opened

\* C7: after a completed cycle SAVED is what it was before the cycle followed by
\* the fetched rows whose available differs from the key's value in the
\* snapshot the cycle loaded (a key not in it counting as 0), at most one row
\* a key; if SAVED did not exist it is a header followed by all the fetched
\* rows.  A header is added only when SAVED is created.
HistoryLogPerCycle ==
    (pc = "idle" /\ result = "completed") =>
        /\ SAVED.exists
        /\ SAVED.lines = ExpectedSaved
        /\ \A i, j \in (Len(pre.SAVED.lines) + 1)..Len(SAVED.lines) :
               (SAVED.lines[i].kind = "row" /\ SAVED.lines[i].key = SAVED.lines[j].key) => i = j
        /\ Headers(SAVED.lines) = Headers(pre.SAVED.lines) + (IF pre.SAVED.exists THEN 0 ELSE 1)

\* a completed cycle found SAVED, appended a fetched row and left another out
AppendedSomeRowsOnly ==
    /\ pc = "idle" /\ result = "completed"
    /\ pre.SAVED.exists
    /\ Len(SAVED.lines) > Len(pre.SAVED.lines)
    /\ Len(SAVED.lines) < Len(pre.SAVED.lines) + Len(new_df)

\* C8: when a cycle completes and the next cycle fetches the same keys with the
\* same available values and completes, the second leaves SAVED as it was.
HistoryAppendIdempotent ==
    (/\ pc = "idle" /\ result = "completed"
     /\ prev.result = "completed"
     /\ current = prev.current) =>
        SAVED = pre.SAVED

\* the second cycle of a run repeated the fetch of the first, which had
\* created SAVED, and both completed
RepeatedFetchAfterCreation ==
    /\ pc = "idle" /\ result = "completed"
    /\ prev.result = "completed"
    /\ current = prev.current
    /\ DOMAIN current = {K1, K2}
    /\ cycles = 2

\* the files hold what the latest cycle computed
SavedReflectsCycle == SAVED.exists /\ SAVED.lines = ExpectedSaved
LastReflectsCycle == LAST.exists /\ LAST.rows = [i \in DOMAIN new_df |-> [key |-> new_df[i].key, available |-> new_df[i].available]]
InfoReflectsCycle ==
    /\ INFO.exists
    /\ INFO.rows = info
    /\ \A i \in DOMAIN info :
           LET mine == { j \in DOMAIN new_df : /\ new_df[j].key[2] = info[i].hotel_code
                                               /\ new_df[j].key[3] = info[i].room_code }
           IN  IF mine = {} THEN info[i].latest_price = NaN
               ELSE /\ \E j \in mine : new_df[j].price <= info[i].latest_price
                    /\ \E j \in mine : new_df[j].price >= info[i].latest_price
FilesAsBefore == INFO = pre.INFO /\ LAST = pre.LAST /\ SAVED = pre.SAVED

\* C9 as stated: a cycle that completed has all three files reflecting it, and
\* a cycle that raised has left all three as they were before it.
CycleAtomic ==
    /\ (pc = "idle" /\ result = "completed") =>
           (SavedReflectsCycle /\ LastReflectsCycle /\ InfoReflectsCycle)
    /\ (pc = "idle" /\ result = "raised") => FilesAsBefore

\* C9 amended: a cycle that completed has all three files reflecting it.  A
\* cycle that raised in the metadata load, the snapshot load, a fetch or the
\* concatenation has left all three as they were.  The files are written in
\* the order SAVED, LAST, INFO and nothing is rolled back: a cycle that raised
\* in a write has the files written before it reflecting the cycle, the
\* files after it as they were, and the file being written as it was or
\* holding some of its new lines; a cycle that raised in the notification
\* has all three reflecting it.
CycleWritesInOrderNoRollback ==
    /\ (pc = "idle" /\ result = "completed") =>
           /\ wrote = << "SAVED", "LAST", "INFO" >>
           /\ SavedReflectsCycle /\ LastReflectsCycle /\ InfoReflectsCycle
    /\ (pc = "idle" /\ result = "raised") =>
           /\ failedAt \in {"load_info", "load_last", "fetch"} =>
                  (wrote = << >> /\ FilesAsBefore)
           /\ failedAt = "save_saved" =>
                  /\ wrote = << >>
                  /\ LAST = pre.LAST /\ INFO = pre.INFO
                  /\ \/ SAVED = pre.SAVED
                     \/ /\ SAVED.exists
                        /\ \E n \in Len(pre.SAVED.lines)..Len(ExpectedSaved) :
                               SAVED.lines = SubSeq(ExpectedSaved, 1, n)
           /\ failedAt = "save_last" =>
                  /\ wrote = << "SAVED" >>
                  /\ SavedReflectsCycle
                  /\ INFO = pre.INFO
                  /\ \/ LAST = pre.LAST
                     \/ /\ LAST.exists
                        /\ \E n \in 0..Len(new_df) :
                               LAST.rows = [i \in 1..n |-> [key |-> new_df[i].key, available |-> new_df[i].available]]
           /\ failedAt = "save_info" =>
                  /\ wrote = << "SAVED", "LAST" >>
                  /\ SavedReflectsCycle /\ LastReflectsCycle
                  /\ \/ INFO = pre.INFO
                     \/ /\ INFO.exists
                        /\ \E n \in 0..Len(info) : INFO.rows = SubSeq(with_latest_price(info, new_df), 1, n)
           /\ failedAt = "send" =>
                  /\ wrote = << "SAVED", "LAST", "INFO" >>
                  /\ SavedReflectsCycle /\ LastReflectsCycle /\ InfoReflectsCycle

\* a cycle raised in the write of LAST: SAVED has new lines, LAST is as it was
RaisedBetweenSavedAndLast ==
    /\ pc = "idle" /\ result = "raised" /\ failedAt = "save_last"
    /\ SAVED # pre.SAVED
    /\ LAST = pre.LAST
    /\ new_df # << >>

\* C10: no file is written before the metadata load, the snapshot load and
\* every availability request have returned: while a cycle is loading or
\* fetching, and after a cycle that raised there, INFO, LAST and SAVED are as
\* they were when the cycle started (a first run whose catalog fetch raises
\* creates no INFO).
NoWriteBeforeFullFetch ==
    (\/ pc \in {"load_info", "load_last", "fetch"}
     \/ pc = "idle" /\ result = "raised" /\ failedAt \in {"load_info", "load_last", "fetch"}) =>
        (wrote = << >> /\ FilesAsBefore)

\* the first run's catalog fetch raised and there is no INFO
FirstRunCatalogRaised ==
    /\ pc = "idle" /\ result = "raised" /\ failedAt = "load_info"
    /\ cycles = 1
    /\ ~INFO.exists

\* C11: responses that cannot be parsed do not abort the cycle, however many
\* of the cycle's requests they answer (all of them included): every request
\* is still made, and once they have all returned the cycle goes on to persist
\* what was fetched.  So a cycle that raised in the fetch stage raised in a
\* request, before they had all returned.
MalformedChunksTolerated ==
    /\ (pc = "idle" /\ result = "raised" /\ failedAt = "fetch") => fetched < Len(calls)
    /\ Diffed => fetched = Len(calls)

\* the cycle's diff has opened or closed for a key of the watch list
WatchedTransition ==
    \E i \in DOMAIN changes :
        changes[i].key \in Range(alert_on) /\ (changes[i].opened \/ changes[i].closed)
\* the latest cycle got as far as deciding whether to notify
Decided == pc = "idle" /\ (result = "completed" \/ (result = "raised" /\ failedAt = "send"))

\* C12: a cycle calls send_room_updates if and only if its diff has opened or
\* closed for a key of the watch list.  With an empty watch list no cycle calls
\* it.  A cycle without such a record completes, and every completed cycle has
\* written each fetched key, watched or not, with its fetched value to LAST.
NotifiesIffWatchedTransition ==
    /\ notified => (Decided /\ WatchedTransition)
    /\ Decided => (notified <=> WatchedTransition)
    /\ alert_on = << >> => ~notified
    /\ (Decided /\ ~WatchedTransition) => result = "completed"
    /\ (pc = "idle" /\ result = "completed") =>
           /\ LAST.exists
           /\ \A k \in DOMAIN current :
                  \E i \in DOMAIN LAST.rows : LAST.rows[i] = [key |-> k, available |-> current[k]]

\* the watch list is empty, K1 went from 0 in the loaded snapshot to 2, the
\* cycle completed without notifying, and LAST has K1 at 2
UnwatchedOpeningNotNotified ==
    /\ pc = "idle" /\ result = "completed"
    /\ alert_on = << >>
    /\ K1 \in DOMAIN prior /\ prior[K1] = 0
    /\ K1 \in DOMAIN current /\ current[K1] = 2
    /\ ~notified
    /\ read_last(LAST.rows)[K1] = 2

\* C13: when send_room_updates raises, SAVED, LAST and INFO keep what the cycle
\* wrote to them, and the cycle is over: the call is not made again before the
\* scheduler runs the next cycle.
DeliveryFailureKeepsState ==
    (result = "raised" /\ failedAt = "send") =>
        /\ pc = "idle"
        /\ notified
        /\ wrote = << "SAVED", "LAST", "INFO" >>
        /\ SavedReflectsCycle /\ LastReflectsCycle /\ InfoReflectsCycle

\* send_room_updates raised in a cycle that had changed all three files
DeliveryFailedAfterPersist ==
    /\ pc = "idle" /\ result = "raised" /\ failedAt = "send"
    /\ pre.SAVED.exists /\ SAVED # pre.SAVED
    /\ LAST # pre.LAST
    /\ INFO # pre.INFO

\* C14: at every instant at most one execution of run_update is active,
\* however long a run takes.
AtMostOneRunActive == Cardinality(running) <= 1

\* C15: the save of INFO is atomic: whenever it is interrupted, a table that
\* was on disk before the cycle is still there complete, or the complete new
\* table is, never a part of one.
MetadataSaveAtomic ==
    pre.INFO.exists =>
        \/ INFO = pre.INFO
        \/ INFO.exists /\ INFO.rows = with_latest_price(info, new_df)

\* the (hotel_code, room_code) index of a metadata table
RoomKeys(rows) == { << rows[i].hotel_code, rows[i].room_code >> : i \in DOMAIN rows }

\* C16: metadata rows are never deleted.  After a cycle that completed (no
\* cycle having raised), every (hotel_code, room_code) that had a row in INFO
\* before the cycle has one after it, also when two rooms have the same
\* room_title, max_occupancy, hotel_title and latest_price and when the cycle
\* fetched no sample for the room.
MetadataRowsNeverDeleted ==
    CompletedClean => RoomKeys(pre.INFO.rows) \subseteq RoomKeys(INFO.rows)

\* the calls of the cycle that are for one hotel, in the order they are made
CallsFor(code) == SelectSeq(calls, LAMBDA rq : rq.hotel_code = code)

\* C17: for a window of N >= 1 days the cycle makes, for each hotel,
\* ceil(N / 31) availability requests, in date order, each for 1 to 31 days:
\* the first starts at the window's first day, each next one at the day after
\* the one before ends, and the last ends at the window's last day, so every
\* day is asked for exactly once.  The calls are made in that order, hotel by
\* hotel, and each is for one of date_chunks, from its first date and for its
\* length.  A window of 65 days gives requests for 31, 31 and 3 days.
ChunkedRequests ==
    pc = "fetch" =>
        LET N == end_date + 1
        IN  /\ \A code \in Range(hotel_codes(info)) :
                   LET rs == CallsFor(code)
                   IN  /\ (Len(rs) - 1) * MAX_DAYS_REQUEST < N
                       /\ N <= Len(rs) * MAX_DAYS_REQUEST
                       /\ rs[1].start_date = 0
                       /\ \A i \in DOMAIN rs : rs[i].num_days \in 1..MAX_DAYS_REQUEST
                       /\ \A i \in 1..(Len(rs) - 1) :
                              rs[i + 1].start_date = rs[i].start_date + rs[i].num_days
                       /\ rs[Len(rs)].start_date + rs[Len(rs)].num_days = N
                       /\ \A i \in DOMAIN rs :
                              /\ rs[i].start_date = date_chunks[i][1]
                              /\ rs[i].num_days = Len(date_chunks[i])
                       /\ N = 65 => [i \in DOMAIN rs |-> rs[i].num_days] = << 31, 31, 3 >>
            /\ Flatten(date_chunks) = dates
            /\ Len(calls) = Len(hotel_codes(info)) * Len(date_chunks)
            /\ fetched <= Len(calls)
            /\ \A i \in 1..(Len(calls) - 1) :
                   \/ calls[i].hotel_code = calls[i + 1].hotel_code
                   \/ \A j \in (i + 1)..Len(calls) : calls[j].hotel_code # calls[i].hotel_code

\* every request of a cycle over a 65-day window has returned: three a hotel
AllOf65DaysFetched ==
    /\ pc = "fetch"
    /\ end_date = 64
    /\ fetched = Len(calls)
    /\ Len(CallsFor("H1")) = 3
    /\ Len(CallsFor("H2")) = 3

\* C18: one cycle is run at once when the process starts, before and whatever
\* the first minute set for a job: as soon as a minute has passed since
\* sched.start(), run_update has been called.
FirstCycleImmediate == elapsed > 0 => cycles > 0

\* C19: every cycle that has left idle is back at idle at some later time,
\* completed or raised, also when the upstream never answers one of its
\* availability requests.
EveryCycleEnds == (pc # "idle") ~> (pc = "idle")

\* the rows SAVED has for a key, oldest first
HistoryOf(k) == SelectSeq(SAVED.lines, LAMBDA l : l.kind = "row" /\ l.key = k)

\* C20: after a cycle that completed (no cycle having raised), every key that
\* LAST holds has its LAST value in its newest SAVED row, or has no SAVED row
\* and the value 0; and no two successive SAVED rows of a key have the same
\* available.
HistoryAgreesWithSnapshot ==
    CompletedClean =>
        /\ \A k \in DOMAIN read_last(LAST.rows) :
               IF HistoryOf(k) = << >>
               THEN read_last(LAST.rows)[k] = 0
               ELSE HistoryOf(k)[Len(HistoryOf(k))].available = read_last(LAST.rows)[k]
        /\ \A l \in DOMAIN SAVED.lines :
               SAVED.lines[l].kind = "row" =>
                   \A i \in 1..(Len(HistoryOf(SAVED.lines[l].key)) - 1) :
                       HistoryOf(SAVED.lines[l].key)[i].available
                           # HistoryOf(SAVED.lines[l].key)[i + 1].available
====
